---- MODULE Spec2Model ----
(***************************************************************************)
(* Model of src/printer.rs: the print dispatcher print_to_all_printers,    *)
(* the settings validator, the USB fallback chain with its three           *)
(* transports (spooler-raw, OS print command, serial) and the network      *)
(* transport.  One thread of control executes one call at a time; every    *)
(* OS, device, socket and status-store outcome is an input of the step     *)
(* that observes it.                                                       *)
(***************************************************************************)
EXTENDS Integers, Sequences, FiniteSets, TLC

(* ---------------------------------------------------------------- bounds *)
MaxCalls == 2
MaxPayloadLen == 1
MaxQty == 1
MaxNameLen == 50

(* ------------------------------------------------------ program constants *)
\* const PRINT_TIMEOUT: Duration = Duration::from_secs(10), in seconds
PRINT_TIMEOUT == 10

\* the initialize control sequence "\x1B@" that prefixes the temporary file
INIT_SEQ == "<ESC>@"

\* const LINE_WIDTH: usize = 48
LINE_WIDTH == 48

\* ESC/POS commands of the renderer: "\x1B\x45\x01", "\x1B\x45\x00",
\* "\x1D\x56\x41\x00"
BOLD_ON == "<ESC>E<01>"
BOLD_OFF == "<ESC>E<00>"
CUT_PAPER == "<GS>VA<00>"

\* the byte a CString cannot hold
NUL == "<NUL>"

(* ------------------------------------------------------------ input sets *)
RECURSIVE Repeat(_, _)
Repeat(s, n) == IF n = 0 THEN "" ELSE s \o Repeat(s, n - 1)

Payloads == { Repeat("K", n) : n \in 0..MaxPayloadLen }

OrderIds == {7, 8}

UsbPorts == {"", "POS58", "POS" \o NUL}

BaudRates == {0, 9600}

NetworkIps == {"", "10.0.0.9:9100"}

PrinterSettings ==
    [usb_port : UsbPorts, baud_rate : BaudRates, network_ip : NetworkIps]

\* how the peer behind network_ip behaves
PeerBehaviours == {"accepts", "stalls", "resets", "refuses", "silent"}

(* ------------------------------------------------------- string helpers *)
RECURSIVE Join(_, _)
\* Vec<String>::join(sep)
Join(v, sep) ==
    IF Len(v) = 0 THEN ""
    ELSE IF Len(v) = 1 THEN v[1]
    ELSE v[1] \o sep \o Join(Tail(v), sep)

\* str::contains
Contains(s, sub) ==
    \E i \in 1..(Len(s) - Len(sub) + 1) : SubSeq(s, i, i + Len(sub) - 1) = sub

\* Result<_, String>
Ok == [ok |-> TRUE, msg |-> ""]
Err(m) == [ok |-> FALSE, msg |-> m]
None == [ok |-> FALSE, msg |-> "<none>"]

(* --------------------------------------------------------------- messages *)
MSG_EMPTY == "Print content cannot be empty"
MSG_NO_PRINTERS == "No printers configured"
MSG_BAD_BAUD == "Invalid baud rate for USB printer"
MSG_SENT == "Successfully sent print job(s)."
MSG_ALL_USB_FAILED == "All USB printing methods failed"
MSG_CONNECT_TIMEOUT == "Connection timeout"
\* Display of std::sync::PoisonError
MSG_POISONED == "poisoned lock: another task failed inside"

(* ------------------------------------------------------------------ state *)
VARIABLES
    pc,            \* position of the thread of control
    entry,         \* the function the caller invoked
    calls,         \* calls made so far
    order_id, content, settings,   \* arguments of the call
    errors,        \* validate_printer_settings' return value
    print_errors,  \* the error accumulator of print_to_all_printers
    result,        \* print_to_all_printers' return value
    usb_result,    \* attempt_usb_print's return value
    net_result,    \* attempt_network_print's return value
    method_result, \* the return value of the transport method that ran last
    invoked,       \* transport methods invoked during the call, in order
    status_calls,  \* set_print_status_internal calls of the call, in order
    log,           \* log::error! / log::warn! lines of the call
    guard_held,    \* the status store's MutexGuard is alive
    poisoned,      \* the status store's Mutex is poisoned
    hprinter_open, doc_started, bytes_written,   \* spooler handle
    temp_file,     \* %TEMP%\zkp_print.txt
    port_open,     \* serial port handle
    stream_open, net_sent, peer, elapsed,        \* socket and connect timer
    tasks,         \* try_windows_print_command run by concurrent dispatches
    kot_in,        \* arguments and fetched rows of generate_kot_content_from_db
    kot_out        \* generate_kot_content_from_db's return value

vars == <<pc, entry, calls, order_id, content, settings, errors, print_errors,
          result, usb_result, net_result, method_result, invoked, status_calls,
          log, guard_held, poisoned, hprinter_open, doc_started, bytes_written,
          temp_file, port_open, stream_open, net_sent, peer, elapsed,
          tasks, kot_in, kot_out>>

argVars == <<entry, order_id, content, settings>>
spoolVars == <<hprinter_open, doc_started, bytes_written>>
netVars == <<stream_open, net_sent, peer, elapsed>>
lockVars == <<guard_held, poisoned>>
retVars == <<errors, print_errors, result, usb_result, net_result>>
\* what the sequential dispatcher leaves alone
asideVars == <<tasks, kot_in, kot_out>>

ABSENT == [exists |-> FALSE, data |-> ""]
File(d) == [exists |-> TRUE, data |-> d]

\* the tasks that run print_to_all_printers concurrently
Tasks == {1, 2}

\* a task that has not reached try_windows_print_command
IdleTask == [pc |-> "idle", content |-> "", handed |-> ABSENT,
             ran |-> FALSE, result |-> None]

\* Option<String> of a breakdown column that is NULL
NoBlob == [present |-> FALSE, parses |-> FALSE, total |-> 0, flavors |-> <<>>]

NoOrder ==
    [is_reprint |-> FALSE, username |-> "", order_number |-> "",
     has_table |-> FALSE, notes |-> "", date_time |-> "", items |-> <<>>,
     total_amount |-> 0, discount_amount |-> 0]

NoContent == [state |-> "none", lines |-> <<>>, tail |-> ""]

Init ==
    /\ pc = "idle"
    /\ entry = "none"
    /\ calls = 0
    /\ order_id = 7
    /\ content = ""
    /\ settings = [usb_port |-> "", baud_rate |-> 0, network_ip |-> ""]
    /\ errors = <<>>
    /\ print_errors = <<>>
    /\ result = None
    /\ usb_result = None
    /\ net_result = None
    /\ method_result = None
    /\ invoked = <<>>
    /\ status_calls = <<>>
    /\ log = <<>>
    /\ guard_held = FALSE
    /\ poisoned = FALSE
    /\ hprinter_open = FALSE
    /\ doc_started = FALSE
    /\ bytes_written = 0
    /\ temp_file = ABSENT
    /\ port_open = FALSE
    /\ stream_open = FALSE
    /\ net_sent = 0
    /\ peer = "none"
    /\ elapsed = 0
    /\ tasks = [t \in Tasks |-> IdleTask]
    /\ kot_in = NoOrder
    /\ kot_out = NoContent

(* ------------------------------------------------------- validate (185) *)
\* faulty variant: the rules chained, the baud rule not asking for a usb_port
validate_short_circuit(s) ==
    IF s.usb_port = "" /\ s.network_ip = "" THEN <<MSG_NO_PRINTERS>>
    ELSE IF s.baud_rate = 0 THEN <<MSG_BAD_BAUD>>
    ELSE <<>>

\* faulty variant: the baud rule missing
validate_without_baud_rule(s) ==
    IF s.usb_port = "" /\ s.network_ip = "" THEN <<MSG_NO_PRINTERS>> ELSE <<>>

validate_printer_settings(s) ==
    (IF s.usb_port = "" /\ s.network_ip = "" THEN <<MSG_NO_PRINTERS>> ELSE <<>>)
    \o (IF s.usb_port # "" /\ s.baud_rate = 0 THEN <<MSG_BAD_BAUD>> ELSE <<>>)

(* ------------------------------------------------------------ the caller *)
\* a call starts with the per-call state fresh
Begin(e, o, c, s, at) ==
    /\ pc \in {"idle", "done"}
    /\ calls < MaxCalls
    /\ calls' = calls + 1
    /\ entry' = e
    /\ order_id' = o
    /\ content' = c
    /\ settings' = s
    /\ pc' = at
    /\ errors' = <<>>
    /\ print_errors' = <<>>
    /\ result' = None
    /\ usb_result' = None
    /\ net_result' = None
    /\ method_result' = None
    /\ invoked' = <<>>
    /\ status_calls' = <<>>
    /\ log' = <<>>
    /\ bytes_written' = 0
    /\ net_sent' = 0
    /\ peer' = "none"
    /\ elapsed' = 0
    /\ UNCHANGED <<guard_held, poisoned, hprinter_open, doc_started,
                   temp_file, port_open, stream_open>>
    /\ UNCHANGED asideVars

CallDispatch ==
    \E o \in OrderIds, c \in Payloads, s \in PrinterSettings :
        Begin("dispatch", o, c, s, "d_check_empty")

CallUsbChain ==
    \E c \in Payloads, s \in PrinterSettings :
        Begin("usb", order_id, c, s, "raw_open")

CallNetwork ==
    \E c \in Payloads, s \in PrinterSettings :
        Begin("network", order_id, c, s, "net_connect")

CallValidate ==
    \E s \in PrinterSettings :
        Begin("validate", order_id, content, s, "v_run")

\* validate_printer_settings called on its own
ValidateRun ==
    /\ pc = "v_run"
    /\ errors' = validate_printer_settings(settings)
    /\ pc' = "done"
    /\ UNCHANGED <<calls, argVars, print_errors, result, usb_result, net_result,
                   method_result, invoked, status_calls, log, lockVars,
                   spoolVars, temp_file, port_open, netVars>>
    /\ UNCHANGED asideVars

(* ------------------------------------------- try_raw_usb_print (222-257) *)
\* lines 223-229: CString::new, OpenPrinterA
RawOpen ==
    /\ pc = "raw_open"
    /\ invoked' = Append(invoked, "spooler")
    /\ IF Contains(settings.usb_port, NUL)
       THEN /\ method_result' =
                 Err("Invalid printer name: nul byte found in provided data")
            /\ pc' = "chain_after_raw"
            /\ UNCHANGED hprinter_open
       ELSE \E opened \in BOOLEAN :
            IF opened
            THEN /\ hprinter_open' = TRUE
                 /\ pc' = "raw_startdoc"
                 /\ UNCHANGED method_result
            ELSE /\ method_result' =
                      Err("OpenPrinter failed with error code: 1801")
                 /\ pc' = "chain_after_raw"
                 /\ UNCHANGED hprinter_open
    /\ UNCHANGED <<calls, argVars, retVars, status_calls, log, lockVars,
                   doc_started, bytes_written, temp_file, port_open, netVars>>
    /\ UNCHANGED asideVars

\* faulty variant: the handle not closed when StartDocPrinterA fails
RawStartDocNoClose ==
    /\ pc = "raw_startdoc"
    /\ \E started \in BOOLEAN :
        IF started
        THEN /\ doc_started' = TRUE
             /\ pc' = "raw_write"
             /\ UNCHANGED method_result
        ELSE /\ method_result' = Err("StartDocPrinter failed: 1804")
             /\ pc' = "chain_after_raw"
             /\ UNCHANGED doc_started
    /\ UNCHANGED <<calls, argVars, retVars, invoked, status_calls, log,
                   lockVars, hprinter_open, bytes_written, temp_file,
                   port_open, netVars>>
    /\ UNCHANGED asideVars

\* lines 240-243: StartDocPrinterA; ClosePrinter on failure
RawStartDoc ==
    /\ pc = "raw_startdoc"
    /\ \E started \in BOOLEAN :
        IF started
        THEN /\ doc_started' = TRUE
             /\ pc' = "raw_write"
             /\ UNCHANGED <<method_result, hprinter_open>>
        ELSE /\ hprinter_open' = FALSE
             /\ method_result' = Err("StartDocPrinter failed: 1804")
             /\ pc' = "chain_after_raw"
             /\ UNCHANGED doc_started
    /\ UNCHANGED <<calls, argVars, retVars, invoked, status_calls, log,
                   lockVars, bytes_written, temp_file, port_open, netVars>>
    /\ UNCHANGED asideVars

\* lines 245-246: WritePrinter returns non-zero or zero, and reports in
\* bytes_written how many bytes the device took; the code reads only the
\* return value
RawWrite ==
    /\ pc = "raw_write"
    /\ \E wrote \in BOOLEAN, n \in 0..Len(content) :
        /\ bytes_written' = n
        /\ method_result' =
             IF wrote THEN Ok ELSE Err("WritePrinter failed: 29")
    /\ pc' = "raw_enddoc"
    /\ UNCHANGED <<calls, argVars, retVars, invoked, status_calls, log,
                   lockVars, hprinter_open, doc_started, temp_file, port_open,
                   netVars>>
    /\ UNCHANGED asideVars

\* lines 247 and 252: EndDocPrinter
RawEndDoc ==
    /\ pc = "raw_enddoc"
    /\ doc_started' = FALSE
    /\ pc' = "raw_close"
    /\ UNCHANGED <<calls, argVars, retVars, method_result, invoked,
                   status_calls, log, lockVars, hprinter_open, bytes_written,
                   temp_file, port_open, netVars>>
    /\ UNCHANGED asideVars

\* lines 248-249 and 253-256: ClosePrinter, return
RawClose ==
    /\ pc = "raw_close"
    /\ hprinter_open' = FALSE
    /\ pc' = "chain_after_raw"
    /\ UNCHANGED <<calls, argVars, retVars, method_result, invoked,
                   status_calls, log, lockVars, doc_started, bytes_written,
                   temp_file, port_open, netVars>>
    /\ UNCHANGED asideVars

(* ----------------------------------- try_windows_print_command (259-291) *)
\* the strict prefixes of d: what a failed std::fs::write can leave behind
Prefixes(d) == { SubSeq(d, 1, k) : k \in 0..(Len(d) - 1) }

\* lines 260-266: std::fs::write creates or truncates the file, then writes
CmdWriteFile ==
    /\ pc = "cmd_write_file"
    /\ invoked' = Append(invoked, "os_command")
    /\ \/ /\ temp_file' = File(INIT_SEQ \o content)
          /\ pc' = "cmd_run"
          /\ UNCHANGED <<method_result, log>>
       \/ /\ \E left \in {temp_file} \cup
                         { File(d) : d \in Prefixes(INIT_SEQ \o content) } :
                temp_file' = left
          /\ log' = Append(log, "Failed to create print file: os error 112")
          /\ method_result' = Err("Failed to create print file: os error 112")
          /\ pc' = "chain_after_cmd"
    /\ UNCHANGED <<calls, argVars, retVars, status_calls, lockVars, spoolVars,
                   port_open, netVars>>
    /\ UNCHANGED asideVars

\* lines 268-279: Command::new("cmd") ... .output()
CmdRun ==
    /\ pc = "cmd_run"
    /\ \E out \in {"launch_failed", "exit_nonzero", "exit_zero"} :
        IF out = "launch_failed"
        THEN /\ log' = Append(log, "Failed to execute print command: os error 2")
             /\ method_result' =
                  Err("Failed to execute print command: os error 2")
             /\ pc' = "cmd_remove_276"
        ELSE /\ method_result' =
                  IF out = "exit_zero" THEN Ok
                  ELSE Err("Print command failed. Status: exit code: 1. "
                           \o "Stderr: . Stdout: Unable to initialize device")
             /\ pc' = "cmd_remove_281"
             /\ UNCHANGED log
    /\ UNCHANGED <<calls, argVars, retVars, invoked, status_calls, lockVars,
                   spoolVars, temp_file, port_open, netVars>>
    /\ UNCHANGED asideVars

\* lines 276-277 and 281-290: let _ = std::fs::remove_file, whose own result
\* is dropped; then the exit status decides
CmdRemove ==
    /\ pc \in {"cmd_remove_276", "cmd_remove_281"}
    /\ \E removed \in BOOLEAN :
        temp_file' = IF removed THEN ABSENT ELSE temp_file
    /\ log' = IF pc = "cmd_remove_281" /\ ~method_result.ok
              THEN Append(log, method_result.msg) ELSE log
    /\ pc' = "chain_after_cmd"
    /\ UNCHANGED <<calls, argVars, retVars, method_result, invoked,
                   status_calls, lockVars, spoolVars, port_open, netVars>>
    /\ UNCHANGED asideVars

(* --------------------------------------------- try_serial_port (293-308) *)
\* lines 297-300: serialport::new(..).timeout(PRINT_TIMEOUT).open()
SerialOpen ==
    /\ pc = "serial_open"
    /\ invoked' = Append(invoked, "serial")
    /\ \E opened \in BOOLEAN :
        IF opened
        THEN /\ port_open' = TRUE
             /\ pc' = "serial_write"
             /\ UNCHANGED method_result
        ELSE /\ method_result' =
                  Err("Failed to open serial port " \o settings.usb_port
                      \o ": No such device")
             /\ pc' = "chain_after_serial"
             /\ UNCHANGED port_open
    /\ UNCHANGED <<calls, argVars, retVars, status_calls, log, lockVars,
                   spoolVars, temp_file, netVars>>
    /\ UNCHANGED asideVars

\* line 302: port.write_all, bounded by the port's timeout
SerialWrite ==
    /\ pc = "serial_write"
    /\ \E wrote \in BOOLEAN :
        IF wrote
        THEN /\ pc' = "serial_flush"
             /\ UNCHANGED <<method_result, port_open>>
        ELSE /\ method_result' =
                  Err("Failed to write to port " \o settings.usb_port
                      \o ": Operation timed out")
             /\ port_open' = FALSE
             /\ pc' = "chain_after_serial"
    /\ UNCHANGED <<calls, argVars, retVars, invoked, status_calls, log,
                   lockVars, spoolVars, temp_file, netVars>>
    /\ UNCHANGED asideVars

\* line 303: port.flush
SerialFlush ==
    /\ pc = "serial_flush"
    /\ \E flushed \in BOOLEAN :
        IF flushed
        THEN /\ pc' = "serial_sleep"
             /\ UNCHANGED <<method_result, port_open>>
        ELSE /\ method_result' =
                  Err("Failed to flush port " \o settings.usb_port
                      \o ": Operation timed out")
             /\ port_open' = FALSE
             /\ pc' = "chain_after_serial"
    /\ UNCHANGED <<calls, argVars, retVars, invoked, status_calls, log,
                   lockVars, spoolVars, temp_file, netVars>>
    /\ UNCHANGED asideVars

\* lines 305-308: the settle delay, then the port is dropped
SerialSleep ==
    /\ pc = "serial_sleep"
    /\ port_open' = FALSE
    /\ method_result' = Ok
    /\ pc' = "chain_after_serial"
    /\ UNCHANGED <<calls, argVars, retVars, invoked, status_calls, log,
                   lockVars, spoolVars, temp_file, netVars>>
    /\ UNCHANGED asideVars

(* ------------------------------------------- attempt_usb_print (199-220) *)
\* attempt_usb_print returns r to whoever called it
UsbReturn(r) ==
    /\ usb_result' = r
    /\ pc' = IF entry = "dispatch" THEN "d_usb_match" ELSE "done"

\* faulty variant: a success does not end the chain
ReturnsOnNever(r) == FALSE

\* lines 202, 208, 214: Ok(_) => return Ok(())
ReturnsOn(r) == r.ok

\* faulty variant: the serial step not guarded by the baud rate
SerialAlways(s) == TRUE

\* line 212: if settings.baud_rate > 0
SerialAttempted(s) == s.baud_rate > 0

\* lines 201-204
ChainAfterRaw ==
    /\ pc = "chain_after_raw"
    /\ IF ReturnsOn(method_result)
       THEN /\ UsbReturn(Ok)
            /\ UNCHANGED log
       ELSE /\ log' = Append(log, "Raw USB print failed: " \o method_result.msg)
            /\ pc' = "cmd_write_file"
            /\ UNCHANGED usb_result
    /\ UNCHANGED <<calls, argVars, errors, print_errors, result, net_result,
                   method_result, invoked, status_calls, lockVars, spoolVars,
                   temp_file, port_open, netVars>>
    /\ UNCHANGED asideVars

\* lines 207-212
ChainAfterCmd ==
    /\ pc = "chain_after_cmd"
    /\ IF ReturnsOn(method_result)
       THEN /\ UsbReturn(Ok)
            /\ UNCHANGED log
       ELSE /\ log' = Append(log, "Windows print command failed: "
                                  \o method_result.msg)
            /\ pc' = IF SerialAttempted(settings)
                     THEN "serial_open" ELSE "chain_fail"
            /\ UNCHANGED usb_result
    /\ UNCHANGED <<calls, argVars, errors, print_errors, result, net_result,
                   method_result, invoked, status_calls, lockVars, spoolVars,
                   temp_file, port_open, netVars>>
    /\ UNCHANGED asideVars

\* lines 213-217
ChainAfterSerial ==
    /\ pc = "chain_after_serial"
    /\ IF ReturnsOn(method_result)
       THEN /\ UsbReturn(Ok)
            /\ UNCHANGED log
       ELSE /\ log' = Append(log, "Serial port print failed. Error: "
                                  \o method_result.msg)
            /\ pc' = "chain_fail"
            /\ UNCHANGED usb_result
    /\ UNCHANGED <<calls, argVars, errors, print_errors, result, net_result,
                   method_result, invoked, status_calls, lockVars, spoolVars,
                   temp_file, port_open, netVars>>
    /\ UNCHANGED asideVars

\* faulty variant: the last method's error appended to the aggregate
ChainFailureWithLastError == Err(MSG_ALL_USB_FAILED \o ": " \o method_result.msg)

\* line 219: Err("All USB printing methods failed")
ChainFailure == Err(MSG_ALL_USB_FAILED)

ChainFail ==
    /\ pc = "chain_fail"
    /\ UsbReturn(ChainFailure)
    /\ UNCHANGED <<calls, argVars, errors, print_errors, result, net_result,
                   method_result, invoked, status_calls, log, lockVars,
                   spoolVars, temp_file, port_open, netVars>>
    /\ UNCHANGED asideVars

(* --------------------------------------- attempt_network_print (310-325) *)
\* attempt_network_print returns r to whoever called it; the socket and the
\* timer are dropped
NetReturn(r) ==
    /\ net_result' = r
    /\ stream_open' = FALSE
    /\ elapsed' = 0
    /\ pc' = IF entry = "dispatch" THEN "d_net_match" ELSE "done"

\* line 313: timeout(PRINT_TIMEOUT, TcpStream::connect(..)) starts; the peer
\* behind the address is whatever it is
NetConnect ==
    /\ pc = "net_connect"
    /\ invoked' = Append(invoked, "network")
    /\ \E b \in PeerBehaviours : peer' = b
    /\ elapsed' = 0
    /\ pc' = "net_connecting"
    /\ UNCHANGED <<calls, argVars, retVars, method_result, status_calls, log,
                   lockVars, spoolVars, temp_file, port_open, stream_open,
                   net_sent>>
    /\ UNCHANGED asideVars

\* faulty variant: the connect not wrapped in a timeout
TimerNeverFires(t) == FALSE

\* the Timeout future is ready once PRINT_TIMEOUT has elapsed
TimerFired(t) == t >= PRINT_TIMEOUT

\* a second passes while the connect is pending, up to the deadline
NetTick ==
    /\ pc = "net_connecting"
    /\ elapsed < PRINT_TIMEOUT
    /\ elapsed' = elapsed + 1
    /\ UNCHANGED <<pc, calls, argVars, retVars, method_result, invoked,
                   status_calls, log, lockVars, spoolVars, temp_file,
                   port_open, stream_open, net_sent, peer>>
    /\ UNCHANGED asideVars

\* line 316: Ok(Ok(stream)) => stream
NetConnected ==
    /\ pc = "net_connecting"
    /\ elapsed < PRINT_TIMEOUT
    /\ peer \in {"accepts", "stalls", "resets"}
    /\ stream_open' = TRUE
    /\ elapsed' = 0
    /\ pc' = "net_write"
    /\ UNCHANGED <<calls, argVars, retVars, method_result, invoked,
                   status_calls, log, lockVars, spoolVars, temp_file,
                   port_open, net_sent, peer>>
    /\ UNCHANGED asideVars

\* line 317: Ok(Err(e)) => return Err("Connection failed: ..")
NetRefused ==
    /\ pc = "net_connecting"
    /\ elapsed < PRINT_TIMEOUT
    /\ peer = "refuses"
    /\ NetReturn(Err("Connection failed: Connection refused (os error 10061)"))
    /\ UNCHANGED <<calls, argVars, errors, print_errors, result, usb_result,
                   method_result, invoked, status_calls, log, lockVars,
                   spoolVars, temp_file, port_open, net_sent, peer>>
    /\ UNCHANGED asideVars

\* line 318: Err(_) => return Err("Connection timeout")
NetTimeout ==
    /\ pc = "net_connecting"
    /\ TimerFired(elapsed)
    /\ NetReturn(Err(MSG_CONNECT_TIMEOUT))
    /\ UNCHANGED <<calls, argVars, errors, print_errors, result, usb_result,
                   method_result, invoked, status_calls, log, lockVars,
                   spoolVars, temp_file, port_open, net_sent, peer>>
    /\ UNCHANGED asideVars

\* line 321: stream.write_all(..).await, under no timeout: it completes when
\* the peer takes the bytes, fails when the peer resets, and stays pending
\* while the peer stalls
NetWrite ==
    /\ pc = "net_write"
    /\ \/ /\ peer = "accepts"
          /\ net_sent' = Len(content)
          /\ pc' = "net_flush"
          /\ UNCHANGED <<net_result, stream_open, elapsed>>
       \/ /\ peer = "resets"
          /\ NetReturn(Err("Write failed: Connection reset by peer"))
          /\ UNCHANGED net_sent
    /\ UNCHANGED <<calls, argVars, errors, print_errors, result, usb_result,
                   method_result, invoked, status_calls, log, lockVars,
                   spoolVars, temp_file, port_open, peer>>
    /\ UNCHANGED asideVars

\* lines 322-324: stream.flush().await
NetFlush ==
    /\ pc = "net_flush"
    /\ \E flushed \in BOOLEAN :
        NetReturn(IF flushed THEN Ok
                  ELSE Err("Flush failed: Broken pipe"))
    /\ UNCHANGED <<calls, argVars, errors, print_errors, result, usb_result,
                   method_result, invoked, status_calls, log, lockVars,
                   spoolVars, temp_file, port_open, net_sent, peer>>
    /\ UNCHANGED asideVars

(* --------------------------------------- print_to_all_printers (21-80) *)
\* lines 27-30
DispatchCheckEmpty ==
    /\ pc = "d_check_empty"
    /\ IF content = ""
       THEN /\ log' = Append(log, MSG_EMPTY)
            /\ result' = Err(MSG_EMPTY)
            /\ pc' = "done"
       ELSE /\ pc' = "d_validate"
            /\ UNCHANGED <<log, result>>
    /\ UNCHANGED <<calls, argVars, errors, print_errors, usb_result,
                   net_result, method_result, invoked, status_calls, lockVars,
                   spoolVars, temp_file, port_open, netVars>>
    /\ UNCHANGED asideVars

\* faulty variant: the validation list ignored
RejectsNothing(e) == FALSE

\* line 33: if !errors.is_empty()
Rejects(e) == Len(e) > 0

\* lines 32-39
DispatchValidate ==
    /\ pc = "d_validate"
    /\ errors' = validate_printer_settings(settings)
    /\ IF Rejects(errors')
       THEN /\ log' = Append(log, "Invalid printer settings: "
                                  \o Join(errors', " | "))
            /\ result' = Err(Join(errors', " | "))
            /\ pc' = "done"
       ELSE /\ pc' = "d_usb"
            /\ UNCHANGED <<log, result>>
    /\ print_errors' = <<>>
    /\ UNCHANGED <<calls, argVars, usb_result, net_result, method_result,
                   invoked, status_calls, lockVars, spoolVars, temp_file,
                   port_open, netVars>>
    /\ UNCHANGED asideVars

\* lines 42-43
DispatchUsb ==
    /\ pc = "d_usb"
    /\ pc' = IF settings.usb_port # "" THEN "raw_open" ELSE "d_net"
    /\ UNCHANGED <<calls, argVars, retVars, method_result, invoked,
                   status_calls, log, lockVars, spoolVars, temp_file,
                   port_open, netVars>>
    /\ UNCHANGED asideVars

\* lines 46 and 63: state.0.lock().map_err(|e| e.to_string())?  The lock is
\* refused when the mutex is poisoned, which another holder's panic can have
\* made it at any time before; `?` then returns from the dispatch
LockOrReturn(next) ==
    \E p \in {poisoned, TRUE} :
        /\ poisoned' = p
        /\ IF p
           THEN /\ result' = Err(MSG_POISONED)
                /\ pc' = "done"
                /\ UNCHANGED guard_held
           ELSE /\ guard_held' = TRUE
                /\ pc' = next
                /\ UNCHANGED result

\* format!("USB: {}", e), format!("Network: {}", e)
Entry(class, e) == class \o ": " \o e

\* lines 43-46 and 51-54: the match on attempt_usb_print's result
DispatchUsbMatch ==
    /\ pc = "d_usb_match"
    /\ IF usb_result.ok
       THEN /\ LockOrReturn("d_usb_status")
            /\ UNCHANGED <<log, print_errors>>
       ELSE /\ log' = Append(log, "USB Printer Error for order "
                                  \o usb_result.msg \o ": "
                                  \o ToString(order_id))
            /\ print_errors' = Append(print_errors, Entry("USB", usb_result.msg))
            /\ pc' = "d_net"
            /\ UNCHANGED <<result, lockVars>>
    /\ UNCHANGED <<calls, argVars, errors, usb_result, net_result,
                   method_result, invoked, status_calls, spoolVars, temp_file,
                   port_open, netVars>>
    /\ UNCHANGED asideVars

\* faulty variant: the success flag taken from the write's own outcome
StatusCallEchoesOutcome(channel, persisted) ==
    [order |-> order_id, channel |-> channel, success |-> persisted,
     persisted |-> persisted]

\* set_print_status_internal(&conn, order_id, channel, true): the store
\* receives the call and either persists it or fails
StatusCall(channel, persisted) ==
    [order |-> order_id, channel |-> channel, success |-> TRUE,
     persisted |-> persisted]

\* faulty variant: the guard kept alive past the arm
DispatchUsbStatusKeepsGuard ==
    /\ pc = "d_usb_status"
    /\ \E persisted \in BOOLEAN :
        /\ status_calls' = Append(status_calls,
                                  [order |-> order_id, channel |-> "usb",
                                   success |-> TRUE, persisted |-> persisted])
        /\ log' = IF persisted THEN log
                  ELSE Append(log, "Failed to update USB print status: "
                                   \o "database is locked")
    /\ pc' = "d_net"
    /\ UNCHANGED <<calls, argVars, retVars, method_result, invoked, lockVars,
                   spoolVars, temp_file, port_open, netVars>>
    /\ UNCHANGED asideVars

\* lines 47-50; the guard is dropped at the end of the arm
DispatchUsbStatus ==
    /\ pc = "d_usb_status"
    /\ \E persisted \in BOOLEAN :
        /\ status_calls' = Append(status_calls, StatusCall("usb", persisted))
        /\ log' = IF persisted THEN log
                  ELSE Append(log, "Failed to update USB print status: "
                                   \o "database is locked")
    /\ guard_held' = FALSE
    /\ pc' = "d_net"
    /\ UNCHANGED <<calls, argVars, retVars, method_result, invoked, poisoned,
                   spoolVars, temp_file, port_open, netVars>>
    /\ UNCHANGED asideVars

\* lines 59-60
DispatchNet ==
    /\ pc = "d_net"
    /\ pc' = IF settings.network_ip # "" THEN "net_connect" ELSE "d_finish"
    /\ UNCHANGED <<calls, argVars, retVars, method_result, invoked,
                   status_calls, log, lockVars, spoolVars, temp_file,
                   port_open, netVars>>
    /\ UNCHANGED asideVars

\* lines 60-63 and 68-71: the match on attempt_network_print's result
DispatchNetMatch ==
    /\ pc = "d_net_match"
    /\ IF net_result.ok
       THEN /\ LockOrReturn("d_net_status")
            /\ UNCHANGED <<log, print_errors>>
       ELSE /\ log' = Append(log, "Network Printer Error for order "
                                  \o net_result.msg \o ": "
                                  \o ToString(order_id))
            /\ print_errors' = Append(print_errors,
                                      Entry("Network", net_result.msg))
            /\ pc' = "d_finish"
            /\ UNCHANGED <<result, lockVars>>
    /\ UNCHANGED <<calls, argVars, errors, usb_result, net_result,
                   method_result, invoked, status_calls, spoolVars, temp_file,
                   port_open, netVars>>
    /\ UNCHANGED asideVars

\* lines 64-67; the guard is dropped at the end of the arm
DispatchNetStatus ==
    /\ pc = "d_net_status"
    /\ \E persisted \in BOOLEAN :
        /\ status_calls' = Append(status_calls,
                                  StatusCall("network", persisted))
        /\ log' = IF persisted THEN log
                  ELSE Append(log, "Failed to update Network print status: "
                                   \o "database is locked")
    /\ guard_held' = FALSE
    /\ pc' = "d_finish"
    /\ UNCHANGED <<calls, argVars, retVars, method_result, invoked, poisoned,
                   spoolVars, temp_file, port_open, netVars>>
    /\ UNCHANGED asideVars

\* lines 75-79
DispatchFinish ==
    /\ pc = "d_finish"
    /\ result' = IF Len(print_errors) = 0
                 THEN [ok |-> TRUE, msg |-> MSG_SENT]
                 ELSE Err(Join(print_errors, " | "))
    /\ pc' = "done"
    /\ UNCHANGED <<calls, argVars, errors, print_errors, usb_result,
                   net_result, method_result, invoked, status_calls, log,
                   lockVars, spoolVars, temp_file, port_open, netVars>>
    /\ UNCHANGED asideVars

(* ---------------------------------------------------------- specification *)
Next ==
    \/ CallDispatch \/ CallUsbChain \/ CallNetwork \/ CallValidate
    \/ ValidateRun
    \/ RawOpen \/ RawStartDoc \/ RawWrite \/ RawEndDoc \/ RawClose
    \/ CmdWriteFile \/ CmdRun \/ CmdRemove
    \/ SerialOpen \/ SerialWrite \/ SerialFlush \/ SerialSleep
    \/ ChainAfterRaw \/ ChainAfterCmd \/ ChainAfterSerial \/ ChainFail
    \/ NetConnect \/ NetTick \/ NetConnected \/ NetRefused \/ NetTimeout
    \/ NetWrite \/ NetFlush
    \/ DispatchCheckEmpty \/ DispatchValidate \/ DispatchUsb
    \/ DispatchUsbMatch \/ DispatchUsbStatus \/ DispatchNet
    \/ DispatchNetMatch \/ DispatchNetStatus \/ DispatchFinish

Spec == Init /\ [][Next]_vars

\* time passes and the executor polls a timer that is ready; nothing else is
\* assumed of the devices, the peer or the caller
LiveSpec == Spec /\ WF_vars(NetTick) /\ WF_vars(NetTimeout)

\* every step that can be taken eventually is: the executor polls, the OS
\* calls return, the caller calls
ProgressSpec == Spec /\ WF_vars(Next)

(* ------------- try_windows_print_command under concurrent dispatches *)
\* print_to_all_printers is an async command: two invocations run on the
\* runtime's worker threads at once.  Each task below is one invocation that
\* has reached try_windows_print_command (its spooler attempt failed); the
\* tasks share the path %TEMP%\zkp_print.txt and nothing else.
seqVars == <<pc, entry, calls, order_id, content, settings, errors,
             print_errors, result, usb_result, net_result, method_result,
             invoked, status_calls, log, guard_held, poisoned, hprinter_open,
             doc_started, bytes_written, port_open, stream_open, net_sent,
             peer, elapsed, kot_in, kot_out>>

\* payloads of concurrent dispatches: non-empty, of different lengths
TaskPayloads == { Repeat("K", n) : n \in 1..(MaxPayloadLen + 1) }

\* line 259: a dispatch enters try_windows_print_command with its content
TaskEnter(t) ==
    /\ tasks[t].pc = "idle"
    /\ \E c \in TaskPayloads :
        tasks' = [tasks EXCEPT ![t] = [IdleTask EXCEPT !.pc = "cmd_write_file",
                                                       !.content = c]]
    /\ UNCHANGED <<seqVars, temp_file>>

\* lines 260-266
TaskWriteFile(t) ==
    /\ tasks[t].pc = "cmd_write_file"
    /\ \/ /\ temp_file' = File(INIT_SEQ \o tasks[t].content)
          /\ tasks' = [tasks EXCEPT ![t].pc = "cmd_run"]
       \/ /\ \E left \in {temp_file} \cup
                  { File(d) : d \in Prefixes(INIT_SEQ \o tasks[t].content) } :
                temp_file' = left
          /\ tasks' = [tasks EXCEPT
                ![t].pc = "returned",
                ![t].result = Err("Failed to create print file: os error 112")]
    /\ UNCHANGED seqVars

\* lines 268-279: cmd /C print /D:\\localhost\<printer> <temp_path>; the
\* utility, when launched, is handed whatever is at the path then
TaskRun(t) ==
    /\ tasks[t].pc = "cmd_run"
    /\ \E out \in {"launch_failed", "exit_nonzero", "exit_zero"} :
        IF out = "launch_failed"
        THEN tasks' = [tasks EXCEPT
                ![t].pc = "cmd_remove",
                ![t].result = Err("Failed to execute print command: os error 2")]
        ELSE tasks' = [tasks EXCEPT
                ![t].pc = "cmd_remove",
                ![t].ran = TRUE,
                ![t].handed = temp_file,
                ![t].result =
                    IF out = "exit_zero" THEN Ok
                    ELSE Err("Print command failed. Status: exit code: 1. "
                             \o "Stderr: . Stdout: Unable to initialize device")]
    /\ UNCHANGED <<seqVars, temp_file>>

\* lines 276 and 281: let _ = std::fs::remove_file(&temp_path)
TaskRemove(t) ==
    /\ tasks[t].pc = "cmd_remove"
    /\ \E removed \in BOOLEAN :
        temp_file' = IF removed THEN ABSENT ELSE temp_file
    /\ tasks' = [tasks EXCEPT ![t].pc = "returned"]
    /\ UNCHANGED seqVars

ConcNext ==
    \E t \in Tasks :
        \/ TaskEnter(t) \/ TaskWriteFile(t) \/ TaskRun(t) \/ TaskRemove(t)

ConcSpec == Init /\ [][ConcNext]_vars

(* ------------------------- generate_kot_content_from_db (84-183) *)
\* str::replace("_", " ")
RECURSIVE ReplaceUnderscores(_)
ReplaceUnderscores(t) ==
    IF Len(t) = 0 THEN ""
    ELSE (IF SubSeq(t, 1, 1) = "_" THEN " " ELSE SubSeq(t, 1, 1))
         \o ReplaceUnderscores(SubSeq(t, 2, Len(t)))

\* line 107: order_number.split('-').last().unwrap_or("")
RECURSIVE LastSegment(_)
LastSegment(t) ==
    IF ~Contains(t, "-") THEN t
    ELSE LastSegment(SubSeq(t, 2, Len(t)))

\* the characters of the inputs that UTF-8 encodes in two bytes
TwoByteChars == {"é"}

\* str::len(): the length in bytes
str_len(t) ==
    Len(t) + Cardinality({ i \in 1..Len(t) : SubSeq(t, i, i) \in TwoByteChars })

\* usize::saturating_sub
SaturatingSub(x, y) == IF x >= y THEN x - y ELSE 0

\* lines 132-137: the modifiers with a count above zero, as "<key>:<count>"
RECURSIVE ModifierTexts(_)
ModifierTexts(modifier) ==
    IF Len(modifier) = 0 THEN <<>>
    ELSE (IF modifier[1].val > 0
          THEN <<ReplaceUnderscores(modifier[1].key) \o ":"
                 \o ToString(modifier[1].val)>>
          ELSE <<>>)
         \o ModifierTexts(Tail(modifier))

\* lines 130-145: a line for each flavor with a total above zero
RECURSIVE FlavorLines(_)
FlavorLines(flavors) ==
    IF Len(flavors) = 0 THEN <<>>
    ELSE (IF flavors[1].total > 0
          THEN <<"    - " \o ReplaceUnderscores(flavors[1].name) \o ": "
                 \o ToString(flavors[1].total)
                 \o (IF Len(ModifierTexts(flavors[1].modifier)) > 0
                     THEN " (" \o Join(ModifierTexts(flavors[1].modifier), ", ")
                          \o ")"
                     ELSE "")>>
          ELSE <<>>)
         \o FlavorLines(Tail(flavors))

\* faulty variant: the total not looked at
SectionShownWhenParsed(json) == json.present /\ json.parses

\* lines 126-128 and 155-157: Some(json), Ok(data), data.total > 0
SectionShown(json) == json.present /\ json.parses /\ json.total > 0

\* lines 125-149
render_complex_section(json, section_name) ==
    IF SectionShown(json)
    THEN <<"  - " \o section_name \o " (" \o ToString(json.total) \o ")">>
         \o FlavorLines(json.flavors)
    ELSE <<>>

\* lines 154-162
render_simple_section(json, section_name) ==
    IF SectionShown(json)
    THEN <<"  - " \o section_name \o ": " \o ToString(json.total)>>
    ELSE <<>>

\* lines 120-167
RECURSIVE ItemLines(_)
ItemLines(item_data) ==
    IF Len(item_data) = 0 THEN <<>>
    ELSE LET item == item_data[1] IN
         <<BOLD_ON \o ToString(item.quantity) \o ") " \o item.name \o BOLD_OFF>>
         \o (IF item.item_type \in {"corndog", "beverage"}
             THEN render_complex_section(item.dinein_json, "Table")
                  \o render_complex_section(item.pack_json, "Pack")
             ELSE render_simple_section(item.dinein_json, "Table")
                  \o render_simple_section(item.pack_json, "Pack"))
         \o ItemLines(Tail(item_data))

\* lines 171-175; the amounts are whole, and f64's Display prints a whole
\* amount without a fraction
estimate_text(total_amount, discount_amount) ==
    IF discount_amount > 0
    THEN ToString(total_amount) \o " (-" \o ToString(discount_amount) \o ")"
    ELSE ToString(total_amount)

\* faulty variant: the cashier name not subtracted
footer_padding_without_name(text_len, name_len) ==
    SaturatingSub(LINE_WIDTH, text_len)

\* line 176
footer_padding(text_len, name_len) ==
    SaturatingSub(SaturatingSub(LINE_WIDTH, text_len), name_len)

\* lines 105-114
HeaderLine(o) ==
    "Kot: " \o BOLD_ON \o LastSegment(o.order_number) \o BOLD_OFF
    \o Repeat(" ", 6)
    \o BOLD_ON \o (IF o.has_table THEN "Table " ELSE "[Pack]") \o BOLD_OFF
    \o Repeat(" ", 6) \o o.date_time

\* lines 98-180: the content, as its lines (each ended by "\n") and the
\* unterminated rest
KotLines(o) ==
    (IF o.is_reprint
     THEN <<INIT_SEQ \o BOLD_ON \o "*** REPRINT ***" \o BOLD_OFF, HeaderLine(o)>>
     ELSE <<INIT_SEQ \o HeaderLine(o)>>)
    \o <<Repeat("-", LINE_WIDTH), "Notes: " \o o.notes, Repeat("-", LINE_WIDTH)>>
    \o ItemLines(o.items)
    \o <<Repeat("-", LINE_WIDTH),
         estimate_text(o.total_amount, o.discount_amount)
         \o Repeat(" ", footer_padding(
                str_len(estimate_text(o.total_amount, o.discount_amount)),
                str_len(o.username)))
         \o o.username,
         "Note: This is not a bill. Please contact cash counter for the bill.",
         "">>

\* line 85: the lock is poisoned (by an earlier panic, or by one now) and
\* the function returns the error before it fetches anything
KotLockFails ==
    /\ kot_out.state = "none"
    /\ poisoned' = TRUE
    /\ kot_in' = NoOrder
    /\ kot_out' = [state |-> "Err", lines |-> <<>>, tail |-> ""]
    /\ UNCHANGED <<pc, entry, calls, order_id, content, settings, errors,
                   print_errors, result, usb_result, net_result, method_result,
                   invoked, status_calls, log, guard_held, hprinter_open,
                   doc_started, bytes_written, temp_file, port_open,
                   stream_open, net_sent, peer, elapsed, tasks>>

\* lines 85-182 with the lock taken: the fetched rows o, the content
GenerateKot(o) ==
    /\ kot_in' = o
    /\ poisoned' = poisoned
    /\ kot_out' = [state |-> "Ok", lines |-> KotLines(o), tail |-> CUT_PAPER]
    /\ UNCHANGED <<pc, entry, calls, order_id, content, settings, errors,
                   print_errors, result, usb_result, net_result, method_result,
                   invoked, status_calls, log, guard_held, hprinter_open,
                   doc_started, bytes_written, temp_file, port_open,
                   stream_open, net_sent, peer, elapsed, tasks>>

\* the command returns its Result to the caller; the next call starts afresh
KotReturn ==
    /\ kot_out.state # "none"
    /\ kot_in' = NoOrder
    /\ kot_out' = NoContent
    /\ UNCHANGED <<pc, entry, calls, order_id, content, settings, errors,
                   print_errors, result, usb_result, net_result, method_result,
                   invoked, status_calls, log, guard_held, poisoned,
                   hprinter_open, doc_started, bytes_written, temp_file,
                   port_open, stream_open, net_sent, peer, elapsed, tasks>>

(* the rows the function fetches *)
Qty == 0..MaxQty
FlavorNames == {"choco", "hot_chili"}
ModKeys == {"extra_sauce", "ice"}

\* a modifier map, in the order its iteration yields the entries
ModifierMaps ==
    {<<>>}
    \cup { <<[key |-> k, val |-> v]>> : k \in ModKeys, v \in Qty }
    \cup { <<[key |-> k[1], val |-> v[1]], [key |-> k[2], val |-> v[2]]>> :
             k \in { kk \in ModKeys \X ModKeys : kk[1] # kk[2] },
             v \in Qty \X Qty }

ShortModifierMaps == { m \in ModifierMaps : Len(m) <= 1 }

Flavors(maps) == [name : FlavorNames, total : Qty, modifier : maps]

\* a flavor map, in the order its iteration yields the entries
FlavorMaps ==
    {<<>>}
    \cup { <<f>> : f \in Flavors(ModifierMaps) }
    \cup { <<ff[1], ff[2]>> :
             ff \in { gg \in Flavors(ModifierMaps) \X Flavors(ShortModifierMaps) :
                        gg[1].name # gg[2].name } }

\* Some(json) that serde_json::from_str rejects
Unparseable == [present |-> TRUE, parses |-> FALSE, total |-> 0, flavors |-> <<>>]

Blobs ==
    {NoBlob, Unparseable}
    \cup [present : {TRUE}, parses : {TRUE}, total : Qty, flavors : FlavorMaps]

FewBlobs ==
    {NoBlob, Unparseable,
     [present |-> TRUE, parses |-> TRUE, total |-> 0,
      flavors |-> <<[name |-> "choco", total |-> 1, modifier |-> <<>>]>>],
     [present |-> TRUE, parses |-> TRUE, total |-> 1,
      flavors |-> <<[name |-> "hot_chili", total |-> 1,
                     modifier |-> <<[key |-> "extra_sauce", val |-> 1]>>]>>]}

\* the item type with the Table and the Pack breakdown
ItemBreakdowns ==
    ({"corndog"} \X Blobs \X {NoBlob, Unparseable})
    \cup ({"corndog"} \X {NoBlob, Unparseable} \X Blobs)
    \cup ({"corndog", "beverage"} \X FewBlobs \X FewBlobs)

Item(t, d, k) ==
    [item_type |-> t, name |-> "Corn Dog", quantity |-> 2,
     dinein_json |-> d, pack_json |-> k]

UserNames ==
    { Repeat("u", n) : n \in 0..MaxNameLen }
    \cup { "Jos" \o "é" \o Repeat("u", n) : n \in {0, 40, 41} }

\* an order with one composite item, over the breakdowns
GenerateKotItems ==
    /\ kot_out.state = "none" /\ ~poisoned
    /\ \E tdk \in ItemBreakdowns :
        LET t == tdk[1]  dk == <<tdk[2], tdk[3]>> IN
        GenerateKot([is_reprint |-> FALSE, username |-> "Alex",
                     order_number |-> "ORD-1103-42", has_table |-> TRUE,
                     notes |-> "", date_time |-> "2026-11-03 03:30:00 AM",
                     items |-> <<Item(t, dk[1], dk[2])>>,
                     total_amount |-> 100, discount_amount |-> 0])

\* an order with no item or one simple item, over the totals and the cashier
GenerateKotTotals ==
    /\ kot_out.state = "none" /\ ~poisoned
    /\ \E r \in BOOLEAN, u \in UserNames, n \in {"42", "ORD-1103-42"},
       h \in BOOLEAN, a \in {0, 100, 1234567}, c \in {-5, 0, 10},
       i \in {<<>>} \cup { <<Item("addon", d, k)>> :
                             d \in FewBlobs, k \in {NoBlob} }
                     \cup { <<Item("addon", d, k)>> :
                             d \in {NoBlob}, k \in FewBlobs } :
        GenerateKot([is_reprint |-> r, username |-> u, order_number |-> n,
                     has_table |-> h, notes |-> "no onions",
                     date_time |-> "2026-11-03 03:30:00 AM", items |-> i,
                     total_amount |-> a, discount_amount |-> c])

RenderNext == KotLockFails \/ GenerateKotItems \/ GenerateKotTotals \/ KotReturn

RenderSpec == Init /\ [][RenderNext]_vars

(* ------------------------------------------------- vocabulary of the claims *)
Dispatching == entry = "dispatch"
DispatchDone == entry = "dispatch" /\ pc = "done"
UsbConfigured == settings.usb_port # ""
NetConfigured == settings.network_ip # ""
NoPrinter == settings.usb_port = "" /\ settings.network_ip = ""
BadBaud == settings.usb_port # "" /\ settings.baud_rate = 0
PassedPreflight == content # "" /\ ~NoPrinter /\ ~BadBaud
UsbReturned == usb_result # None
NetReturned == net_result # None
UsbFailed == UsbReturned /\ ~usb_result.ok
NetFailed == NetReturned /\ ~net_result.ok
UsbSucceeded == UsbReturned /\ usb_result.ok
NetSucceeded == NetReturned /\ net_result.ok
IsUsbMethod(m) == m \in {"spooler", "os_command", "serial"}
IsNetwork(m) == m = "network"
UsbInvoked == SelectSeq(invoked, IsUsbMethod)
NetInvoked == SelectSeq(invoked, IsNetwork)
Range(f) == { f[i] : i \in DOMAIN f }
Channels == [ i \in DOMAIN status_calls |-> status_calls[i].channel ]
StartsWith(s, pre) == Len(s) >= Len(pre) /\ SubSeq(s, 1, Len(pre)) = pre

(* ------------------------------------------------------------------ C1 *)
\* the message the claim expects: an entry for each class that failed, USB
\* first, joined by " | "
FailedEntries ==
    (IF UsbFailed THEN <<"USB: " \o usb_result.msg>> ELSE <<>>)
    \o (IF NetFailed THEN <<"Network: " \o net_result.msg>> ELSE <<>>)

\* C1: a dispatch that passed the pre-flight checks and in which a configured
\* class failed returns a failure whose message is exactly the entries of the
\* classes that failed ("USB: .." before "Network: ..", joined by " | "), and
\* the status store has received a success call for the class that succeeded.
C1_PartialFailureReported ==
    (DispatchDone /\ PassedPreflight /\ (UsbFailed \/ NetFailed)) =>
        /\ result # None
        /\ ~result.ok
        /\ result.msg = Join(FailedEntries, " | ")
        /\ UsbSucceeded =>
             \E i \in DOMAIN status_calls :
                /\ status_calls[i].channel = "usb"
                /\ status_calls[i].success
        /\ NetSucceeded =>
             \E i \in DOMAIN status_calls :
                /\ status_calls[i].channel = "network"
                /\ status_calls[i].success

(* ------------------------------------------------------------------ C2 *)
\* C2: with both classes configured and both succeeding, the dispatch returns
\* success and the store receives exactly (usb, true) then (network, true);
\* the USB call is received before the network attempt starts.
C2_BothSucceed ==
    /\ (DispatchDone /\ UsbConfigured /\ NetConfigured
        /\ UsbSucceeded /\ NetSucceeded) =>
            /\ result.ok
            /\ Channels = <<"usb", "network">>
            /\ \A i \in DOMAIN status_calls : status_calls[i].success
    /\ (Dispatching /\ UsbConfigured /\ UsbSucceeded /\ Len(NetInvoked) > 0) =>
            /\ Len(status_calls) >= 1
            /\ status_calls[1].channel = "usb"

(* ------------------------------------------------------------------ C3 *)
\* C3: a dispatch in which every configured class printed successfully
\* returns success, however acquiring the store's guard and writing the
\* status ended.
C3_PersistenceNeverDemotes ==
    (/\ DispatchDone
     /\ PassedPreflight
     /\ UsbConfigured => UsbSucceeded
     /\ NetConfigured => NetSucceeded) => result.ok

(* ------------------------------------------------------------------ C4 *)
RejectedPreflight == content = "" \/ NoPrinter \/ BadBaud

\* C4: a dispatch with an empty payload or with settings that validation
\* flags never invokes a transport method and never calls the status store,
\* never leaves the pre-flight checks except by returning, and returns a
\* failure; for invalid settings the message is the validation list joined
\* with " | ".
C4_PreflightRejection ==
    (Dispatching /\ RejectedPreflight) =>
        /\ invoked = <<>>
        /\ status_calls = <<>>
        /\ ~guard_held /\ ~hprinter_open /\ ~port_open /\ ~stream_open
        /\ pc \in {"d_check_empty", "d_validate", "done"}
        /\ pc = "done" =>
            /\ result # None
            /\ ~result.ok
            /\ content = "" => result.msg = "Print content cannot be empty"
            /\ (content # "" /\ NoPrinter) =>
                    result.msg = "No printers configured"
            /\ (content # "" /\ BadBaud) =>
                    result.msg = "Invalid baud rate for USB printer"
            /\ content # "" => result.msg = Join(errors, " | ")

C4_Witness ==
    /\ DispatchDone
    /\ content # ""
    /\ BadBaud
    /\ NetConfigured
    /\ result = Err("Invalid baud rate for USB printer")
    /\ invoked = <<>>

(* ------------------------------------------------------------------ C5 *)
FallbackOrder == <<"spooler", "os_command", "serial">>

\* the method whose return value the chain is looking at succeeded
MethodSucceeded ==
    /\ pc \in {"chain_after_raw", "chain_after_cmd", "chain_after_serial"}
    /\ method_result.ok

\* C5: the chain invokes its methods in the order spooler, OS command,
\* serial, each at most once; when a method has succeeded the chain returns
\* success at once without invoking another, and after the chain has returned
\* no USB method is invoked in the same call.
C5_StopsAtFirstSuccess ==
    [][ /\ \E n \in 0..3 : UsbInvoked = SubSeq(FallbackOrder, 1, n)
        /\ \E n \in 0..3 : UsbInvoked' = SubSeq(FallbackOrder, 1, n)
        /\ MethodSucceeded =>
              /\ usb_result' = Ok
              /\ invoked' = invoked
              /\ pc' \in {"d_usb_match", "done"}
        /\ (UsbReturned /\ calls' = calls) =>
              /\ UsbInvoked' = UsbInvoked
              /\ usb_result' = usb_result
      ]_vars

C5_Witness ==
    /\ pc = "done"
    /\ settings.baud_rate > 0
    /\ UsbSucceeded
    /\ invoked = <<"spooler", "os_command">>
    /\ hprinter_open = FALSE

(* ------------------------------------------------------------------ C6 *)
MethodLogPrefixes ==
    {"Raw USB print failed: ", "Windows print command failed: ",
     "Serial port print failed. Error: "}

\* the errors of the individual methods, as the chain logged them
LoggedMethodErrors ==
    UNION { { SubSeq(log[i], Len(pre) + 1, Len(log[i])) :
                i \in { j \in DOMAIN log : StartsWith(log[j], pre) } } :
            pre \in MethodLogPrefixes }

UsbEntry == "USB: All USB printing methods failed"

\* C6: when every attempted USB method failed the chain returns exactly
\* "All USB printing methods failed"; the entry the dispatch makes for USB is
\* exactly "USB: All USB printing methods failed", and so is the USB entry of
\* every returned message that has one (the only returned message without
\* entries is the refused lock's); the individual method errors are in the
\* log and in no returned value.
C6_OnlyAggregateSurfaces ==
    /\ UsbFailed =>
          /\ usb_result = Err("All USB printing methods failed")
          /\ Len(UsbInvoked) >= 2
          /\ Cardinality(LoggedMethodErrors) >= 2
          /\ \A e \in LoggedMethodErrors : ~Contains(usb_result.msg, e)
    /\ (Dispatching /\ UsbFailed /\ pc # "d_usb_match") =>
          /\ Len(print_errors) >= 1
          /\ print_errors[1] = UsbEntry
          /\ \A i \in 2..Len(print_errors) : ~StartsWith(print_errors[i], "USB: ")
    /\ (DispatchDone /\ UsbFailed) =>
          /\ result # None
          /\ ~result.ok
          /\ \A e \in LoggedMethodErrors : ~Contains(result.msg, e)
          /\ \/ result.msg = UsbEntry
             \/ /\ StartsWith(result.msg, UsbEntry \o " | Network: ")
                /\ NetFailed
             \/ /\ result.msg = MSG_POISONED
                /\ NetSucceeded

C6_Witness ==
    /\ DispatchDone
    /\ invoked = <<"spooler", "os_command", "serial", "network">>
    /\ Cardinality(LoggedMethodErrors) = 3
    /\ result = Err("USB: All USB printing methods failed | "
                    \o "Network: Connection timeout")

(* ------------------------------------------------------------------ C7 *)
\* C7: the serial transport is invoked, and the serial port opened, only when
\* baud_rate > 0; with baud_rate = 0 a chain whose spooler and OS-command
\* methods failed returns the aggregate failure having invoked those two
\* methods only and logged no serial failure.
C7_SerialOnlyWithBaudRate ==
    /\ (port_open \/ pc \in {"serial_open", "serial_write", "serial_flush",
                             "serial_sleep", "chain_after_serial"}
        \/ "serial" \in Range(invoked)) => settings.baud_rate > 0
    /\ (UsbReturned /\ settings.baud_rate = 0 /\ ~usb_result.ok) =>
          /\ usb_result = Err("All USB printing methods failed")
          /\ UsbInvoked = <<"spooler", "os_command">>
          /\ \A i \in DOMAIN log :
                ~StartsWith(log[i], "Serial port print failed")

C7_Witness ==
    /\ entry = "usb"
    /\ pc = "done"
    /\ settings.usb_port = "POS58"
    /\ settings.baud_rate = 0
    /\ usb_result = Err("All USB printing methods failed")
    /\ invoked = <<"spooler", "os_command">>
    /\ Len(log) >= 2
    /\ ~port_open

(* ------------------------------------------------------------------ C8 *)
\* C8: every dispatch that passes validation with a non-empty network_ip has
\* invoked the network attempt exactly once by the time it returns, whatever
\* the USB step did.
C8_NetworkAlwaysAttempted ==
    (DispatchDone /\ PassedPreflight /\ NetConfigured) => Len(NetInvoked) = 1

(* ------------------------------------------------------------------ C9 *)
ConnectingToSilentPeer == pc = "net_connecting" /\ peer = "silent"

TimedOutWithoutWriting ==
    /\ pc \in {"d_net_match", "done"}
    /\ net_result = Err("Connection timeout")
    /\ net_sent = 0
    /\ ~stream_open

\* C9: a network attempt whose peer never accepts the connection returns the
\* failure "Connection timeout": it leaves the connect only when the
\* PRINT_TIMEOUT seconds have elapsed, then always returns, and has opened
\* no stream and written no byte.
C9_SilentPeerTimesOut ==
    /\ [](ConnectingToSilentPeer =>
            /\ elapsed <= PRINT_TIMEOUT
            /\ ~stream_open
            /\ net_sent = 0
            /\ net_result = None)
    /\ [][(ConnectingToSilentPeer /\ pc' # "net_connecting") =>
            /\ elapsed = PRINT_TIMEOUT
            /\ TimedOutWithoutWriting']_vars
    /\ (ConnectingToSilentPeer ~> TimedOutWithoutWriting)

C9_Witness ==
    /\ entry = "network"
    /\ peer = "silent"
    /\ content # ""
    /\ TimedOutWithoutWriting

(* ------------------------------------------------------------------ C10 *)
\* errors holds validate_printer_settings' return value for settings
Validated ==
    \/ entry = "validate" /\ pc = "done"
    \/ entry = "dispatch" /\ content # "" /\ pc \notin {"d_check_empty", "d_validate"}

\* C10: the list validate_printer_settings returns contains "No printers
\* configured" iff usb_port and network_ip are both empty, contains "Invalid
\* baud rate for USB printer" iff usb_port is non-empty and baud_rate is 0,
\* holds nothing else and nothing twice, and is empty otherwise.
C10_ValidationRules ==
    Validated =>
        /\ ("No printers configured" \in Range(errors)) <=>
              (settings.usb_port = "" /\ settings.network_ip = "")
        /\ ("Invalid baud rate for USB printer" \in Range(errors)) <=>
              (settings.usb_port # "" /\ settings.baud_rate = 0)
        /\ Range(errors) \subseteq
              {"No printers configured", "Invalid baud rate for USB printer"}
        /\ Len(errors) = Cardinality(Range(errors))

C10_Witness ==
    /\ entry = "validate"
    /\ pc = "done"
    /\ settings = [usb_port |-> "POS58", baud_rate |-> 0, network_ip |-> ""]
    /\ errors = <<"Invalid baud rate for USB printer">>

(* ------------------------------------------------------------------ C13 *)
\* C13: when try_windows_print_command has returned, the temporary file does
\* not exist.
C13_TempFileRemoved ==
    pc = "chain_after_cmd" => ~temp_file.exists

(* ------------------------------------------------------------------ C14 *)
InSpooler == pc \in {"raw_startdoc", "raw_write", "raw_enddoc", "raw_close"}

\* C14: the spooler attempt leaves no handle open and no document started
\* when it has returned, on every path; a handle is opened only by OpenPrinter
\* and a document started only by StartDocPrinter on an open handle;
\* EndDocPrinter is called only on a started document and ClosePrinter only
\* on an open handle whose document, if any, was ended before.
C14_SpoolerReleases ==
    /\ [](/\ ~InSpooler => (~hprinter_open /\ ~doc_started)
          /\ doc_started => hprinter_open
          /\ pc = "raw_enddoc" => (hprinter_open /\ doc_started)
          /\ pc = "raw_close" => (hprinter_open /\ ~doc_started))
    /\ [][/\ (~hprinter_open /\ hprinter_open') => pc = "raw_open"
          /\ (~doc_started /\ doc_started') =>
                (pc = "raw_startdoc" /\ hprinter_open)
          /\ (doc_started /\ ~doc_started') =>
                (pc = "raw_enddoc" /\ hprinter_open')
          /\ (hprinter_open /\ ~hprinter_open') =>
                (~doc_started /\ pc \in {"raw_startdoc", "raw_close"})
          /\ (InSpooler /\ ~InSpooler') =>
                (pc' = "chain_after_raw" /\ ~hprinter_open' /\ ~doc_started')
         ]_vars

C14_Witness ==
    /\ pc = "chain_after_raw"
    /\ method_result = Err("WritePrinter failed: 29")
    /\ invoked = <<"spooler">>
    /\ ~hprinter_open
    /\ ~doc_started

(* ------------------------------------------------------------------ C15 *)
TransportInProgress ==
    pc \in {"raw_open", "raw_startdoc", "raw_write", "raw_enddoc", "raw_close",
            "chain_after_raw", "cmd_write_file", "cmd_run", "cmd_remove_276",
            "cmd_remove_281", "chain_after_cmd", "serial_open", "serial_write",
            "serial_flush", "serial_sleep", "chain_after_serial", "chain_fail",
            "net_connect", "net_connecting", "net_write", "net_flush"}

\* C15: the store's guard is alive only between its acquisition and the end
\* of the status write: never while a transport attempt is in progress, never
\* while a printer handle, serial port or socket is open; the guard of the USB
\* status write is gone when the network attempt starts.
C15_GuardOnlyForStatusWrite ==
    /\ guard_held => pc \in {"d_usb_status", "d_net_status"}
    /\ guard_held => (~hprinter_open /\ ~port_open /\ ~stream_open)
    /\ TransportInProgress => ~guard_held

C15_Witness ==
    /\ Dispatching
    /\ pc = "net_connecting"
    /\ Len(status_calls) = 1
    /\ status_calls[1].channel = "usb"
    /\ ~guard_held

(* ------------------------------------------------------------------ C16 *)
ChannelSucceeded(c) ==
    \/ c = "usb" /\ UsbSucceeded
    \/ c = "network" /\ NetSucceeded

\* C16: in every call, each status-store call is made by a dispatch, for the
\* order of that call, with success = true, for a channel whose attempt has
\* returned success in that call, and at most once per channel; a write the
\* store fails is logged and its error is in no returned value.
C16_StatusWrites ==
    /\ [](/\ \A i \in DOMAIN status_calls :
                /\ Dispatching
                /\ status_calls[i].order = order_id
                /\ status_calls[i].success = TRUE
                /\ status_calls[i].channel \in {"usb", "network"}
                /\ ChannelSucceeded(status_calls[i].channel)
                /\ ~status_calls[i].persisted =>
                      \E j \in DOMAIN log :
                         StartsWith(log[j], "Failed to update")
          /\ \A i, j \in DOMAIN status_calls :
                status_calls[i].channel = status_calls[j].channel => i = j
          /\ (UsbFailed \/ ~UsbConfigured) =>
                \A i \in DOMAIN status_calls : status_calls[i].channel # "usb"
          /\ (NetFailed \/ ~NetConfigured) =>
                \A i \in DOMAIN status_calls :
                    status_calls[i].channel # "network"
          /\ DispatchDone =>
                /\ ~Contains(result.msg, "Failed to update")
                /\ ~Contains(result.msg, "database is locked")
                /\ (/\ Len(print_errors) = 0
                    /\ Len(status_calls) > 0
                    /\ status_calls[Len(status_calls)].channel =
                         (IF NetConfigured THEN "network" ELSE "usb"))
                   => result.ok)
    /\ [][(status_calls' # status_calls /\ calls' = calls) =>
            /\ Len(status_calls') = Len(status_calls) + 1
            /\ SubSeq(status_calls', 1, Len(status_calls)) = status_calls
            /\ ChannelSucceeded(status_calls'[Len(status_calls')].channel)
         ]_vars

C16_Witness ==
    /\ DispatchDone
    /\ calls = 2
    /\ order_id = 8
    /\ Len(status_calls) = 2
    /\ ~status_calls[1].persisted
    /\ ~status_calls[2].persisted
    /\ result.ok

(* ------------------------------------------------------------------ C17 *)
NetInProgress ==
    pc \in {"net_connect", "net_connecting", "net_write", "net_flush"}

\* C17: a network attempt that has started always returns, whatever the peer
\* does after accepting the connection.
C17_NetworkAttemptReturns ==
    NetInProgress ~> ~NetInProgress

(* ------------------------------------------------------------------ C18 *)
\* C18: when the spooler attempt reports success, the device took as many
\* bytes as the payload has.
C18_SuccessMeansFullPayload ==
    (pc = "chain_after_raw" /\ method_result.ok) =>
        bytes_written = Len(content)

(* ------------------------------------------------------------------ C20 *)
InUsbChain ==
    pc \in {"raw_open", "raw_startdoc", "raw_write", "raw_enddoc", "raw_close",
            "chain_after_raw", "cmd_write_file", "cmd_run", "cmd_remove_276",
            "cmd_remove_281", "chain_after_cmd", "serial_open", "serial_write",
            "serial_flush", "serial_sleep", "chain_after_serial", "chain_fail"}

\* C20: a chain reached through print_to_all_printers runs with
\* baud_rate > 0, so it never skips the serial step: it reaches its failure
\* only with spooler, OS command and serial all invoked and failed, each
\* failure logged.
C20_DispatchNeverSkipsSerial ==
    Dispatching =>
        /\ (InUsbChain \/ UsbReturned) => settings.baud_rate > 0
        /\ (pc = "chain_fail" \/ UsbFailed) =>
              /\ UsbInvoked = <<"spooler", "os_command", "serial">>
              /\ Cardinality(LoggedMethodErrors) = 3
              /\ \E i \in DOMAIN log :
                    StartsWith(log[i], "Serial port print failed")
        /\ UsbFailed => usb_result = Err("All USB printing methods failed")

C20_Witness ==
    /\ Dispatching
    /\ pc = "d_usb_match"
    /\ UsbFailed
    /\ UsbInvoked = <<"spooler", "os_command", "serial">>
    /\ method_result.msg = "Failed to flush port POS58: Operation timed out"

(* ------------------------------------------------------------------ C19 *)
\* C19: whenever a dispatch's print utility has been launched, the file it
\* was handed exists and holds the initialize sequence followed by that
\* dispatch's own payload, whatever the other dispatch does meanwhile.
C19_UtilityGetsOwnFile ==
    \A t \in Tasks :
        tasks[t].ran =>
            /\ tasks[t].handed.exists
            /\ tasks[t].handed.data = "<ESC>@" \o tasks[t].content

(* ---------------------------------------------------------------- C11 *)
RenderedOk == kot_out.state = "Ok"

CompositeRendered ==
    /\ RenderedOk
    /\ Len(kot_in.items) = 1
    /\ kot_in.items[1].item_type \in {"corndog", "beverage"}

\* the lines between the item's own line and the closing separator
ItemBody ==
    SubSeq(kot_out.lines, (IF kot_in.is_reprint THEN 6 ELSE 5) + 1,
           Len(kot_out.lines) - 4)

HasSection(b) == b.present /\ b.parses /\ b.total > 0

PositiveFlavors(b) == SelectSeq(b.flavors, LAMBDA f : f.total > 0)

SectionLen(b) == IF HasSection(b) THEN 1 + Len(PositiveFlavors(b)) ELSE 0

Shown(name) ==
    CASE name = "hot_chili" -> "hot chili"
      [] name = "extra_sauce" -> "extra sauce"
      [] OTHER -> name

CountChar(t, c) == Cardinality({ i \in 1..Len(t) : SubSeq(t, i, i) = c })

FlavorLineOk(line, f) ==
    LET head == "    - " \o Shown(f.name) \o ": " \o ToString(f.total)
        rest == SubSeq(line, Len(head) + 1, Len(line))
        q == { i \in 1..Len(f.modifier) : f.modifier[i].val > 0 }
    IN  /\ StartsWith(line, head)
        /\ ~Contains(line, "_")
        /\ IF q = {}
           THEN rest = ""
           ELSE /\ StartsWith(rest, " (")
                /\ SubSeq(rest, Len(rest), Len(rest)) = ")"
                /\ CountChar(rest, ":") = Cardinality(q)
                /\ \A i \in 1..Len(f.modifier) :
                       Contains(rest, Shown(f.modifier[i].key) \o ":"
                                      \o ToString(f.modifier[i].val))
                       <=> i \in q

SectionOk(part, b, section_name) ==
    HasSection(b) =>
        /\ part[1] = "  - " \o section_name \o " (" \o ToString(b.total) \o ")"
        /\ \A k \in 1..Len(PositiveFlavors(b)) :
               FlavorLineOk(part[1 + k], PositiveFlavors(b)[k])

\* C11: under a composite item ("corndog", "beverage") the content has, for
\* the Table breakdown and then for the Pack breakdown, a section header
\* exactly when the breakdown is present, parses and has a total above zero,
\* and nothing at all otherwise; a shown section has one line for each flavor
\* with a total above zero, and that line's parenthetical lists exactly the
\* modifiers with a count above zero, underscores shown as spaces, and is
\* left out when no modifier has one.
C11_CompositeSections ==
    CompositeRendered =>
        LET d == kot_in.items[1].dinein_json
            k == kot_in.items[1].pack_json
        IN  /\ Len(ItemBody) = SectionLen(d) + SectionLen(k)
            /\ SectionOk(SubSeq(ItemBody, 1, SectionLen(d)), d, "Table")
            /\ SectionOk(SubSeq(ItemBody, SectionLen(d) + 1, Len(ItemBody)),
                         k, "Pack")

\* a Table breakdown with one flavor and one counted modifier, no Pack blob
C11_Witness ==
    /\ CompositeRendered
    /\ kot_in.items[1].dinein_json =
           [present |-> TRUE, parses |-> TRUE, total |-> 1,
            flavors |-> <<[name |-> "choco", total |-> 1,
                           modifier |-> <<[key |-> "extra_sauce", val |-> 1],
                                          [key |-> "ice", val |-> 0]>>]>>]
    /\ kot_in.items[1].pack_json = NoBlob
    /\ ItemBody = <<"  - Table (1)", "    - choco: 1 (extra sauce:1)">>

(* ---------------------------------------------------------------- C12 *)
TotalsLine == kot_out.lines[Len(kot_out.lines) - 2]

AmountText ==
    IF kot_in.discount_amount > 0
    THEN ToString(kot_in.total_amount) \o " (-"
         \o ToString(kot_in.discount_amount) \o ")"
    ELSE ToString(kot_in.total_amount)

\* C12: the totals line is the amount text ("<amount> (-<discount>)" when
\* the discount is above zero, else "<amount>"), p spaces, the cashier name,
\* with p = max(0, 48 - len(amount text) - len(cashier name)), lengths in
\* bytes: the line is 48 long when the two texts together are shorter than
\* 48, and p = 0 with both texts whole when they are 48 or longer.
C12_TotalsLineLayout ==
    RenderedOk =>
        LET a == AmountText
            u == kot_in.username
            p == Len(TotalsLine) - Len(a) - Len(u)
            room == LINE_WIDTH - str_len(a) - str_len(u)
        IN  /\ p >= 0
            /\ StartsWith(TotalsLine, a)
            /\ SubSeq(TotalsLine, Len(a) + 1, Len(a) + p) = Repeat(" ", p)
            /\ SubSeq(TotalsLine, Len(a) + p + 1, Len(TotalsLine)) = u
            /\ p = (IF room > 0 THEN room ELSE 0)
            /\ (room > 0 => str_len(TotalsLine) = LINE_WIDTH)
            /\ (room <= 0 => TotalsLine = a \o u)

\* amount 100, discount 10 and a four-letter cashier: the name ends at 48
C12_Witness ==
    /\ RenderedOk
    /\ kot_in.total_amount = 100
    /\ kot_in.discount_amount = 10
    /\ kot_in.username = "uuuu"
    /\ TotalsLine = "100 (-10)" \o Repeat(" ", 35) \o "uuuu"

\* the two texts together longer than the line: no padding, nothing cut
C12_WitnessOverflow ==
    /\ RenderedOk
    /\ kot_in.total_amount = 1234567
    /\ Len(kot_in.username) = MaxNameLen
    /\ TotalsLine = "1234567" \o kot_in.username

====
